---- MODULE Spec2Model ----
(***************************************************************************)
(* The live audio session of src/index.tsx (component App): connect /      *)
(* disconnect, the transport callbacks, the microphone capture tick, the   *)
(* playback scheduler and the transcript aggregator.                       *)
(*                                                                         *)
(* One action is one task of the browser's event loop: a user command, a   *)
(* transport callback, an audio event, a timer, or the continuation of an  *)
(* awaited promise.  A continuation that resumes in a microtask (an await  *)
(* of a value that is already settled) runs before any other task; the     *)
(* model keeps it in decodePending and lets nothing else run before it.    *)
(*                                                                         *)
(* Spec is the session with its capture and playback, SpecT adds the       *)
(* transcripts to sessions that open without error, SpecU adds the unmount *)
(* of the component to Spec.  SpecM is the transcript aggregator alone,    *)
(* SpecE the session under transport errors of every class, SpecF the      *)
(* session when a step of the teardown throws, SpecB the user's commands   *)
(* given at any time, SpecG connecting with a microphone that may refuse,   *)
(* SpecV the volume meter over buffers of every loudness, SpecL the        *)
(* operations running to their end under fairness, SpecP the playback of   *)
(* SpecV with timers that fire, SpecD the sessions under a clock whose      *)
(* reads may repeat, SpecI the message list under two-party messages.      *)
(***************************************************************************)
EXTENDS Integers, Sequences, FiniteSets

\* ------------------------------------------------------------------ bounds
MaxNow == 2        \* Date.now() returns 1..MaxNow
MaxTime == 3       \* AudioContext.currentTime and nextStartTime stay in 0..MaxTime
MaxSources == 2    \* source nodes scheduled at once
MaxTimers == 1     \* pending 100 ms timers per session
MaxEnded == 1      \* stopped nodes per session whose ended event is outstanding
MaxPending == 1    \* frames waiting on an unsettled sessionPromise
MaxAccLen == 8     \* characters in a transcript accumulator
MaxMsgs == 3       \* entries of the message list

\* ------------------------------------------------------- program constants
Null == 0          \* null / the session id installed by disconnect
VolumeGain == 10   \* Math.min(rms * 10, 1)
Unit == 100        \* 1.0 in hundredths (rms and volume are held in hundredths)

\* An audio chunk of a message: none, one that cannot be decoded, or its duration.
NoAudio == -1
BadAudio == 0
NoDecode == [dur |-> NoAudio, tok |-> Null]

Tokens == 1..MaxNow
Durations == {1, 2}
RmsLevels == {0, 5, 100}

\* ------------------------------------------------------------------- text
\* A string is a sequence of characters; a character outside ASCII is written by
\* its name: "t_dot" is U+1E6D, "th_*" are the Thai letters and marks of the first
\* stop phrase (to tao, sara i, to patak, phinthu, tho than, to tao, sara u).
UpperCase == <<"A", "B", "C", "D", "E", "F", "G", "H", "I", "J", "K", "L", "M", "N",
              "O", "P", "Q", "R", "S", "T", "U", "V", "W", "X", "Y", "Z", "T_dot">>
LowerCase == <<"a", "b", "c", "d", "e", "f", "g", "h", "i", "j", "k", "l", "m", "n",
              "o", "p", "q", "r", "s", "t", "u", "v", "w", "x", "y", "z", "t_dot">>

Lower(c) ==
  LET upper == {i \in 1..Len(UpperCase) : UpperCase[i] = c}
  IN IF upper = {} THEN c ELSE LowerCase[CHOOSE i \in upper : TRUE]

ToLowerCase(s) == [i \in 1..Len(s) |-> Lower(s[i])]

Includes(s, p) ==
  \E i \in 0..(Len(s) - Len(p)) : SubSeq(s, i + 1, i + Len(p)) = p

IsWhitespace(c) == c = " "

\* text.trim().length > 0
TrimNonEmpty(s) == \E i \in 1..Len(s) : ~IsWhitespace(s[i])

StopPhrases ==
  { <<"th_to_tao", "th_sara_i", "th_to_patak", "th_phinthu", "th_tho_than",
      "th_to_tao", "th_sara_u">>,
    <<"t", "i", "t_dot", "t_dot", "h", "a", "t", "u">>,
    <<"t", "i", "t", "t", "h", "a", "t", "u">> }

HasStopPhrase(text) ==
  \E lowerText \in {ToLowerCase(text)} : \E p \in StopPhrases : Includes(lowerText, p)

\* Transcript fragments the service may deliver.
Fragments ==
  { <<"n", "a">>, <<"n", "a", "m", "o">>, <<" ">>,
    <<"T", "i", "t", "t">>, <<"H", "a", "t", "u">> }

NoText == << >>

\* No model fragment received yet.
NoTurn == [last |-> NoText, chain |-> TRUE, text |-> NoText]

\* The fragment s extends the fragment p: it starts with p and is longer.
Extends(s, p) == Len(p) < Len(s) /\ SubSeq(s, 1, Len(p)) = p

\* -------------------------------------------------------------- variables
VARIABLES
  \* React state of App
  isConnected, isSpeaking, isBusy, messages, error, volume,
  \* refs of App
  audioContextInput, audioContextOutput, processorRef, sourceRef, nextStartTime,
  audioSources, streamRef, activeSessionRef, currentSessionIdRef,
  currentInputTrans, currentOutputTrans,
  \* the environment
  now,            \* the last value Date.now() returned (0: not yet read)
  mounted,        \* App is mounted
  transports,     \* transport sessions whose callbacks may still be called
  capture,        \* session ids whose capture graph delivers audioprocess events
  residual,       \* detached capture graphs whose last event may still be queued
                  \* (it is delivered before any event of a graph created later)
  endedPending,   \* stopped source nodes whose ended event is not yet dispatched
  timers,         \* pending setTimeout(() => setIsSpeaking(false), 100)
  openInputs, openOutputs, openStreams,   \* device objects open, referenced or not
  \* the asynchronous operations in flight
  pc,             \* where connect, disconnect and the unmount cleanup are suspended
  sessionId,      \* connect's local const sessionId
  sessionPromise, \* connect's local sessionPromise
  pendingSends,   \* then-callbacks registered on the unsettled sessionPromise
  decodePending,  \* playAudioChunk suspended at await decodeAudioData
  \* history
  outputTurn,     \* the model fragments received since currentOutputTrans was
                  \* last empty: the last one, whether each extended the one
                  \* before it, and all of them in arrival order
  evt,            \* the task that ran last
  sinceDisconnect, \* a disconnect has completed and no connect has started since
  overlapped      \* the unmount cleanup ran while a connect was in flight

ui == <<isConnected, isSpeaking, isBusy, messages, error, volume>>
handles == <<audioContextInput, audioContextOutput, processorRef, sourceRef,
             streamRef, activeSessionRef>>
devices == <<openInputs, openOutputs, openStreams, capture, residual>>
sched == <<nextStartTime, audioSources, endedPending, timers>>
trans == <<currentInputTrans, currentOutputTrans, outputTurn>>
procs == <<pc, sessionId, sessionPromise, pendingSends, decodePending>>
vars == <<ui, handles, devices, sched, trans, procs, currentSessionIdRef, now,
          mounted, overlapped, transports, evt, sinceDisconnect>>

\* The observables of the session (what the UI renders).
observables == <<isConnected, isSpeaking, volume, messages, error>>

Procs == {"connect", "disconnect", "unmount"}

\* ---------------------------------------------------------------- helpers
Max(a, b) == IF a >= b THEN a ELSE b
Min(a, b) == IF a <= b THEN a ELSE b

RECURSIVE SumTo(_, _)
SumTo(f, n) == IF n = 0 THEN 0 ELSE f[n] + SumTo(f, n - 1)

\* Set.size of a set of nodes held as a count per creating session.
Size(f) == SumTo(f, MaxNow)

NoNodes == [t \in Tokens |-> 0]

\* The task that ran last: its kind, the session id its closure captured (Null for
\* a user command or a continuation of one), and what it did:
\*   sent, queued   frames handed to sendRealtimeInput / left waiting on sessionPromise
\*   vol            setVolume was called
\*   intr, stop     onmessage ran its interrupted branch / detected the stop command
\*   reset          nextStartTime as the interrupted branch found it
\*   stopped        source nodes the task stopped
\*   dropped        length of currentOutputTrans as the interrupted branch found it
\*   at, start      ctx.currentTime and the start time of the source node scheduled
\*   turn           onmessage ran its turnComplete branch
\*   err, class     the text of the error the task handled (onerror, or connect's
\*                  catch after getUserMedia) and the branch onerror took
\*   rms            the loudness of the buffer a capture tick measured, in
\*                  hundredths
\*   unsent         deferred sends that ran and found their token superseded
\*   played         the source whose ended event this is played to its end
\*   frame          the PCM values a capture tick encoded for a sample of +rms
\*                  and a sample of -rms of its buffer
\*   proc, steps    the operation whose teardown the task ran, and the steps of
\*                  cleanupAudioAndSession it performed, in order
\*   teardown       "running" when the task left the teardown at an await,
\*                  "returned" or "threw" when it ended it
Evt(op, tok) ==
  [op |-> op, tok |-> tok, sent |-> 0, queued |-> 0, vol |-> FALSE,
   intr |-> FALSE, stop |-> FALSE, reset |-> -1, stopped |-> 0, dropped |-> 0,
   at |-> -1, start |-> -1, turn |-> FALSE, err |-> << >>, class |-> "",
   proc |-> "", steps |-> << >>, teardown |-> "", rms |-> -1, unsent |-> 0,
   played |-> FALSE, frame |-> << >>]

Init ==
  /\ isConnected = FALSE /\ isSpeaking = FALSE /\ isBusy = FALSE
  /\ messages = << >> /\ error = "null" /\ volume = 0
  /\ audioContextInput = "null" /\ audioContextOutput = "null"
  /\ processorRef = Null /\ sourceRef = Null /\ streamRef = "null"
  /\ activeSessionRef = Null
  /\ nextStartTime = 0 /\ audioSources = NoNodes
  /\ currentSessionIdRef = 0
  /\ currentInputTrans = NoText /\ currentOutputTrans = NoText
  /\ outputTurn = NoTurn
  /\ now = 0 /\ mounted = TRUE
  /\ transports = {} /\ capture = {} /\ residual = {}
  /\ endedPending = NoNodes /\ timers = NoNodes
  /\ openInputs = 0 /\ openOutputs = 0 /\ openStreams = 0
  /\ pc = [p \in Procs |-> "idle"]
  /\ sessionId = Null /\ sessionPromise = "none" /\ pendingSends = 0
  /\ decodePending = NoDecode
  /\ evt = Evt("init", Null)
  /\ sinceDisconnect = FALSE
  /\ overlapped = FALSE

\* A task starts only when no continuation is waiting in the microtask queue.
NoMicrotask == decodePending = NoDecode

\* ------------------------------------------------- errors thrown to connect
Txt503 == <<"5", "0", "3">>
TxtAborted == <<"a", "b", "o", "r", "t", "e", "d">>
TxtUnavailable == <<"u", "n", "a", "v", "a", "i", "l", "a", "b", "l", "e">>
TxtPermission == <<"P", "e", "r", "m", "i", "s", "s", "i", "o", "n", " ", "d", "e", "n", "i", "e", "d">>
TxtTypeError == <<"n", "u", "l", "l">>

\* Messages of the errors getUserMedia and ai.live.connect reject with.
TxtAbortedError == <<"A", "b", "o", "r", "t", "e", "d">>
ConnectErrors ==
  { <<"U", "n", "a", "v", "a", "i", "l", "a", "b", "l", "e">>,
    TxtAbortedError,
    TxtPermission }

\* A catch block that knows the busy notice only.
ConnectNoticeBusyOnly(msg) ==
  IF Includes(ToLowerCase(msg), TxtUnavailable) \/ Includes(msg, Txt503)
  THEN "connect_busy"
  ELSE "keep"

\* The notice connect's catch block sets, "keep" when it sets none.
ConnectNotice(msg) ==
  IF Includes(ToLowerCase(msg), TxtUnavailable) \/ Includes(msg, Txt503)
  THEN "connect_busy"
  ELSE IF ~Includes(ToLowerCase(msg), TxtAborted) THEN "connect_failed"
  ELSE "keep"

\* --------------------------------------------------------------- teardown
\* session.close(): the transport stops delivering messages; onclose follows.
Closed(tok) ==
  {IF r.tok = tok THEN [r EXCEPT !.st = "closing"] ELSE r : r \in transports}

\* src.stop() on every node of `sources`: their ended events are outstanding.
Stopped(sources) ==
  [t \in Tokens |-> Min(endedPending[t] + sources[t], MaxEnded)]

\* A cleanup that stops the source nodes before anything else (a fault C18 must
\* detect).
SourcesFirstOrder ==
  <<"sources", "processor", "source", "stream", "session", "input", "output">>

\* The steps of cleanupAudioAndSession in the order of its statements: disconnect
\* the script processor, disconnect the stream source, stop the tracks of the
\* microphone stream, close the session, close the input context, close the
\* output context, stop and clear the source nodes.
TeardownOrder ==
  <<"processor", "source", "stream", "session", "input", "output", "sources">>

\* The sets of steps that throw during one task: none, or any single one.
NoFaults == {{}}
SingleFaults == {{}} \cup {{TeardownOrder[i]} : i \in 1..Len(TeardownOrder)}

\* The message of the error a failing track.stop() throws.
TxtStopFailed == <<"s", "t", "o", "p", " ", "f", "a", "i", "l", "e", "d">>

\* A cleanup that never closes the output context.
CleanupKeepsOutput(entry, faults) ==
  IF entry = "A" /\ streamRef # "null" /\ "stream" \in faults THEN "threw"
  ELSE IF entry = "A" /\ activeSessionRef # Null /\ "session" \notin faults THEN "cl_sess"
  ELSE IF entry \in {"A", "B"} /\ audioContextInput # "null" THEN "cl_in"
  ELSE "done"

\* Where cleanupAudioAndSession leaves off when it runs on from `entry` ("A" its
\* first line, "B" after await session.close(), "C" after await
\* audioContextInput.close(), "D" after await audioContextOutput.close()) and the
\* steps of `faults` throw: at one of its awaits, at its end ("done"), or at the
\* error of track.stop(), the one call outside a try block ("threw").  A
\* session.close() that throws does so before anything is awaited; a context's
\* close() that fails returns a rejected promise, which is awaited.
CleanupStop(entry, faults) ==
  IF entry = "A" /\ streamRef # "null" /\ "stream" \in faults THEN "threw"
  ELSE IF entry = "A" /\ activeSessionRef # Null /\ "session" \notin faults THEN "cl_sess"
  ELSE IF entry \in {"A", "B"} /\ audioContextInput # "null" THEN "cl_in"
  ELSE IF entry \in {"A", "B", "C"} /\ audioContextOutput # "null" THEN "cl_out"
  ELSE "done"

\* The step is performed when the cleanup comes to it: its handle is set.
Present(step) ==
  CASE step = "processor" -> processorRef # Null
    [] step = "source" -> sourceRef # Null
    [] step = "stream" -> streamRef # "null"
    [] step = "session" -> activeSessionRef # Null
    [] step = "input" -> audioContextInput # "null"
    [] step = "output" -> audioContextOutput # "null"
    [] OTHER -> TRUE

\* The cleanup leaves the task at the step: it awaits it, or the step throws
\* outside a try block.
Leaves(step, faults) ==
  \/ step = "stream" /\ "stream" \in faults
  \/ step = "session" /\ "session" \notin faults
  \/ step \in {"input", "output"}

\* The steps performed, in order, from the i-th statement on until the cleanup
\* leaves the task.
RECURSIVE StepsFrom(_, _)
StepsFrom(i, faults) ==
  IF i > Len(TeardownOrder) THEN << >>
  ELSE IF ~Present(TeardownOrder[i]) THEN StepsFrom(i + 1, faults)
  ELSE IF Leaves(TeardownOrder[i], faults) THEN <<TeardownOrder[i]>>
  ELSE <<TeardownOrder[i]>> \o StepsFrom(i + 1, faults)

\* The steps a task performs when the cleanup runs on from `entry`.
CleanupSteps(entry, faults) ==
  LET awaited == CASE entry = "B" -> "session" [] entry = "C" -> "input"
                   [] entry = "D" -> "output" [] OTHER -> ""
      at == {i \in 1..Len(TeardownOrder) : TeardownOrder[i] = awaited}
  IN StepsFrom(IF at = {} THEN 1 ELSE (CHOOSE i \in at : TRUE) + 1, faults)

\* The record of a task of operation p that ran the cleanup from `entry`, after
\* the steps `before` of p itself.
TeardownEvt(op, p, entry, faults, before) ==
  [Evt(op, Null) EXCEPT
     !.proc = p,
     !.steps = before \o CleanupSteps(entry, faults),
     !.teardown = CASE CleanupStop(entry, faults) = "done" -> "returned"
                    [] CleanupStop(entry, faults) = "threw" -> "threw"
                    [] OTHER -> "running"]

\* A disconnect that leaves the session id in place (a fault C3 must detect).
KeptId(current) == current

\* The session id disconnect installs.
InvalidatedId(current) == Null

\* cleanupAudioAndSession run by p from `entry` up to its next await; when it
\* returns, p's own continuation runs in the same task: disconnect resets the
\* observables, connect creates the two audio contexts and awaits resume().
\* When it throws, disconnect ends there and connect runs its catch and finally
\* blocks.
Cleanup(p, entry, faults) ==
  LET stop == CleanupStop(entry, faults)
      done == stop = "done"
      threw == stop = "threw"
      first == entry = "A"
      creates == done /\ p = "connect"
      resets == done /\ p # "connect"
      caught == threw /\ p = "connect"
      detaches == first /\ "processor" \notin faults
  IN
  /\ capture' = IF detaches THEN capture \ {processorRef} ELSE capture
  /\ residual' = IF detaches /\ processorRef \in capture
                 THEN residual \cup {processorRef} ELSE residual
  /\ processorRef' = IF first THEN Null ELSE processorRef
  /\ sourceRef' = IF first THEN Null ELSE sourceRef
  /\ streamRef' = IF first /\ ~threw THEN "null" ELSE streamRef
  /\ openStreams' = IF first /\ ~threw /\ streamRef = "live"
                    THEN openStreams - 1 ELSE openStreams
  /\ activeSessionRef' = IF first /\ ~threw THEN Null ELSE activeSessionRef
  /\ transports' = IF first /\ ~threw /\ activeSessionRef # Null /\ "session" \notin faults
                   THEN Closed(activeSessionRef) ELSE transports
  /\ audioContextInput' =
       IF creates THEN "open"
       ELSE IF stop = "cl_in" THEN "closed"
       ELSE IF entry = "C" THEN "null"
       ELSE audioContextInput
  /\ openInputs' = openInputs
       - (IF stop = "cl_in" /\ audioContextInput = "open" /\ "input" \notin faults
          THEN 1 ELSE 0)
       + (IF creates THEN 1 ELSE 0)
  /\ audioContextOutput' =
       IF creates THEN "open"
       ELSE IF stop = "cl_out" THEN "closed"
       ELSE IF entry = "D" THEN "null"
       ELSE audioContextOutput
  /\ openOutputs' = openOutputs
       - (IF stop = "cl_out" /\ audioContextOutput = "open" /\ "output" \notin faults
          THEN 1 ELSE 0)
       + (IF creates THEN 1 ELSE 0)
  /\ audioSources' = IF done THEN NoNodes ELSE audioSources
  /\ endedPending' = IF done THEN Stopped(audioSources) ELSE endedPending
  /\ pc' = [pc EXCEPT ![p] = IF creates THEN "resume_in"
                             ELSE IF done \/ threw THEN "idle" ELSE stop]
  /\ isConnected' = IF resets \/ caught THEN FALSE ELSE isConnected
  /\ isSpeaking' = IF resets THEN FALSE ELSE isSpeaking
  /\ volume' = IF resets THEN 0 ELSE volume
  /\ isBusy' = IF resets \/ caught THEN FALSE ELSE IF first THEN TRUE ELSE isBusy
  /\ sinceDisconnect' = IF resets THEN TRUE
                        ELSE IF first /\ p = "connect" THEN FALSE
                        ELSE sinceDisconnect
  /\ UNCHANGED <<messages, nextStartTime, timers, trans, pendingSends, decodePending>>

\* ------------------------------------------------------ connect, disconnect
\* The values a read of Date.now() may return: the clock never runs backwards,
\* and a read that is `apart` from the last one is at least a millisecond later.
DateNow(apart) == (IF apart THEN now + 1 ELSE Max(now, 1))..MaxNow

\* toggleConnection calls connect when isConnected is false.
ConnectStart(onLines, apart, faultSets) ==
  /\ NoMicrotask
  /\ mounted /\ ~isBusy /\ ~isConnected /\ pc["connect"] = "idle"
  /\ \E onLine \in onLines :
       IF ~onLine
       THEN /\ error' = "offline"
            /\ evt' = Evt("connect_offline", Null)
            /\ UNCHANGED <<isConnected, isSpeaking, isBusy, messages, volume, handles,
                           devices, sched, trans, procs, currentSessionIdRef, now,
                           mounted, overlapped, transports, sinceDisconnect>>
       ELSE \E t \in DateNow(apart), faults \in faultSets :
            /\ now' = t
            /\ currentSessionIdRef' = t
            /\ sessionId' = t
            /\ sessionPromise' = "none"
            /\ error' = IF CleanupStop("A", faults) = "threw"
                        THEN ConnectNotice(TxtStopFailed) ELSE "null"
            /\ Cleanup("connect", "A", faults)
            /\ evt' = TeardownEvt("connect", "connect", "A", faults, << >>)
            /\ UNCHANGED <<mounted, overlapped>>

\* toggleConnection, toggleTranslationMode, handleAppModeChange and
\* handleSaveContext call disconnect when isConnected is true.
DisconnectStart(faultSets) ==
  /\ NoMicrotask
  /\ mounted /\ ~isBusy /\ isConnected /\ pc["disconnect"] = "idle"
  /\ currentSessionIdRef' = InvalidatedId(currentSessionIdRef)
  /\ \E faults \in faultSets :
       /\ Cleanup("disconnect", "A", faults)
       /\ evt' = TeardownEvt("disconnect", "disconnect", "A", faults, <<"invalidate">>)
  /\ UNCHANGED <<error, now, sessionId, sessionPromise, mounted, overlapped>>

\* connect called while isBusy is true: it returns at its first line.
ConnectBusy ==
  /\ NoMicrotask
  /\ mounted /\ ~isConnected /\ isBusy
  /\ evt' = Evt("connect", Null)
  /\ UNCHANGED <<ui, handles, devices, sched, trans, procs, currentSessionIdRef, now,
                 mounted, overlapped, transports, sinceDisconnect>>

\* disconnect called while isBusy is true: it returns at its first line.
DisconnectBusy ==
  /\ NoMicrotask
  /\ mounted /\ isConnected /\ isBusy
  /\ evt' = Evt("disconnect", Null)
  /\ UNCHANGED <<ui, handles, devices, sched, trans, procs, currentSessionIdRef, now,
                 mounted, overlapped, transports, sinceDisconnect>>

\* The unmount cleanup: it closes the session and calls the disconnect of the
\* first render, whose isBusy is false.
Unmount ==
  /\ NoMicrotask
  /\ mounted /\ pc["unmount"] = "idle"
  /\ mounted' = FALSE
  /\ overlapped' = (pc["connect"] # "idle")
  /\ currentSessionIdRef' = InvalidatedId(currentSessionIdRef)
  /\ Cleanup("unmount", "A", {})
  /\ evt' = TeardownEvt("unmount", "unmount", "A", {}, <<"invalidate">>)
  /\ UNCHANGED <<error, now, sessionId, sessionPromise>>

\* An awaited close() of cleanupAudioAndSession settles.
CleanupResume(p, faultSets) ==
  /\ NoMicrotask
  /\ pc[p] \in {"cl_sess", "cl_in", "cl_out"}
  /\ \E entry \in {CASE pc[p] = "cl_sess" -> "B" [] pc[p] = "cl_in" -> "C" [] OTHER -> "D"},
        faults \in faultSets :
       /\ Cleanup(p, entry, faults)
       /\ evt' = TeardownEvt("continuation", p, entry, faults, << >>)
  /\ UNCHANGED <<error, now, sessionId, sessionPromise, currentSessionIdRef, mounted,
                 overlapped>>

\* A guard that lets every session through (a fault C4 must detect).
AnySession(tok) == TRUE

\* The guard every callback and continuation of a session starts with.
IsCurrent(tok) == currentSessionIdRef = tok

\* connect's catch and finally blocks, entered with an error of message msg.
ConnectCatch(msg) ==
  /\ error' = IF IsCurrent(sessionId) /\ ConnectNotice(msg) # "keep"
              THEN ConnectNotice(msg) ELSE error
  /\ isConnected' = IF IsCurrent(sessionId) THEN FALSE ELSE isConnected
  /\ isBusy' = IF IsCurrent(sessionId) THEN FALSE ELSE isBusy
  /\ pc' = [pc EXCEPT !["connect"] = "idle"]

\* await audioContextInput.current.resume() settles; the next line calls
\* audioContextOutput.current.resume().
ResumeInDone ==
  /\ NoMicrotask
  /\ pc["connect"] = "resume_in"
  /\ IF audioContextInput # "open" \/ audioContextOutput = "null"
     THEN ConnectCatch(TxtTypeError)
     ELSE /\ pc' = [pc EXCEPT !["connect"] = "resume_out"]
          /\ UNCHANGED <<error, isConnected, isBusy>>
  /\ evt' = [Evt("continuation", Null) EXCEPT !.proc = "connect"]
  /\ UNCHANGED <<isSpeaking, messages, volume, handles, devices, sched, trans,
                 sessionId, sessionPromise, pendingSends, decodePending,
                 currentSessionIdRef, now, mounted, overlapped, transports,
                 sinceDisconnect>>

\* await audioContextOutput.current.resume() settles; createGain, getUserMedia.
ResumeOutDone ==
  /\ NoMicrotask
  /\ pc["connect"] = "resume_out"
  /\ IF audioContextOutput # "open"
     THEN ConnectCatch(TxtTypeError)
     ELSE /\ pc' = [pc EXCEPT !["connect"] = "gum"]
          /\ UNCHANGED <<error, isConnected, isBusy>>
  /\ evt' = [Evt("continuation", Null) EXCEPT !.proc = "connect"]
  /\ UNCHANGED <<isSpeaking, messages, volume, handles, devices, sched, trans,
                 sessionId, sessionPromise, pendingSends, decodePending,
                 currentSessionIdRef, now, mounted, overlapped, transports,
                 sinceDisconnect>>

\* await navigator.mediaDevices.getUserMedia settles.
GetUserMediaDone(errors) ==
  /\ NoMicrotask
  /\ pc["connect"] = "gum"
  /\ \/ \E msg \in errors :
          /\ ConnectCatch(msg)
          /\ evt' = [Evt("continuation", Null) EXCEPT !.proc = "connect", !.err = msg]
          /\ UNCHANGED <<streamRef, openStreams, transports, sessionPromise>>
     \/ /\ ~IsCurrent(sessionId)
        \* the stream is stopped at once
        /\ evt' = [Evt("continuation", Null) EXCEPT !.proc = "connect"]
        /\ isBusy' = FALSE
        /\ pc' = [pc EXCEPT !["connect"] = "idle"]
        /\ UNCHANGED <<error, isConnected, streamRef, openStreams, transports,
                       sessionPromise>>
     \/ /\ IsCurrent(sessionId)
        /\ evt' = [Evt("continuation", Null) EXCEPT !.proc = "connect"]
        /\ streamRef' = "live"
        /\ openStreams' = openStreams + 1
        /\ transports' = transports \cup {[tok |-> sessionId, st |-> "connecting"]}
        /\ sessionPromise' = "pending"
        /\ pc' = [pc EXCEPT !["connect"] = "open"]
        /\ UNCHANGED <<error, isConnected, isBusy>>
  /\ UNCHANGED <<isSpeaking, messages, volume, audioContextInput, audioContextOutput,
                 processorRef, sourceRef, activeSessionRef, openInputs, openOutputs,
                 capture, residual, sched, trans, sessionId, pendingSends,
                 decodePending, currentSessionIdRef, now, mounted, overlapped,
                 sinceDisconnect>>

\* await sessionPromise resumes with the session: the final guard, the finally
\* block, and then the sends that were waiting on the promise.
SessionResolved ==
  /\ NoMicrotask
  /\ pc["connect"] = "open" /\ sessionPromise = "opened"
  /\ sessionPromise' = "resolved"
  /\ pc' = [pc EXCEPT !["connect"] = "idle"]
  /\ IF IsCurrent(sessionId)
     THEN /\ activeSessionRef' = sessionId
          /\ isBusy' = FALSE
          /\ transports' = transports
     ELSE /\ transports' = Closed(sessionId)
          /\ UNCHANGED <<activeSessionRef, isBusy>>
  /\ evt' = [Evt("connect_resolved", Null) EXCEPT
               !.proc = "connect",
               !.sent = IF IsCurrent(sessionId) THEN pendingSends ELSE 0,
               !.unsent = IF IsCurrent(sessionId) THEN 0 ELSE pendingSends]
  /\ pendingSends' = 0
  /\ UNCHANGED <<isConnected, isSpeaking, messages, error, volume, audioContextInput,
                 audioContextOutput, processorRef, sourceRef, streamRef, devices,
                 sched, trans, sessionId, decodePending, currentSessionIdRef, now,
                 mounted, overlapped, sinceDisconnect>>

\* await sessionPromise throws: the transport could not be opened.
SessionRejected(errors) ==
  /\ NoMicrotask
  /\ pc["connect"] = "open" /\ sessionPromise = "pending"
  /\ sessionPromise' = "rejected"
  /\ pendingSends' = 0
  /\ \E msg \in errors : ConnectCatch(msg)
  /\ transports' = Closed(sessionId)
  /\ evt' = [Evt("continuation", Null) EXCEPT !.proc = "connect"]
  /\ UNCHANGED <<isSpeaking, messages, volume, handles, devices, sched, trans,
                 sessionId, decodePending, currentSessionIdRef, now, mounted,
                 overlapped,
                 sinceDisconnect>>

\* ------------------------------------------------------ transport callbacks
\* onopen of the transport session r.
OnOpen(r) ==
  /\ NoMicrotask
  /\ r \in transports /\ r.st = "connecting"
  /\ transports' = (transports \ {r}) \cup {[r EXCEPT !.st = "open"]}
  /\ sessionPromise' =
       IF pc["connect"] = "open" /\ sessionId = r.tok /\ sessionPromise = "pending"
       THEN "opened" ELSE sessionPromise
  /\ IF IsCurrent(r.tok)
     THEN /\ isConnected' = TRUE
          /\ messages' = << >>
          /\ IF audioContextInput = "open"
             THEN /\ capture' = capture \cup {r.tok}
                  /\ residual' = {}
                  /\ sourceRef' = r.tok
                  /\ processorRef' = r.tok
             ELSE UNCHANGED <<capture, residual, sourceRef, processorRef>>
     ELSE UNCHANGED <<isConnected, messages, capture, residual, sourceRef,
                      processorRef>>
  /\ evt' = Evt("onopen", r.tok)
  /\ UNCHANGED <<isSpeaking, isBusy, error, volume, audioContextInput,
                 audioContextOutput, streamRef, activeSessionRef, openInputs,
                 openOutputs, openStreams, sched, trans, pc, sessionId,
                 pendingSends, decodePending, currentSessionIdRef, now, mounted,
                 overlapped,
                 sinceDisconnect>>

\* onclose of the transport session r.
OnClose(r) ==
  /\ NoMicrotask
  /\ r \in transports
  /\ transports' = transports \ {r}
  /\ IF IsCurrent(r.tok)
     THEN /\ isConnected' = FALSE
          /\ isSpeaking' = FALSE
          /\ activeSessionRef' = Null
     ELSE UNCHANGED <<isConnected, isSpeaking, activeSessionRef>>
  /\ evt' = Evt("onclose", r.tok)
  /\ UNCHANGED <<isBusy, messages, error, volume, audioContextInput,
                 audioContextOutput, processorRef, sourceRef, streamRef, devices,
                 sched, trans, procs, currentSessionIdRef, now, mounted, overlapped,
                 sinceDisconnect>>

\* The patterns of onerror, matched against errMsg.toLowerCase().
BusyPatterns ==
  { <<"s", "e", "r", "v", "i", "c", "e", " ", "i", "s", " ", "c", "u", "r", "r", "e", "n", "t", "l", "y", " ", "u", "n", "a", "v", "a", "i", "l", "a", "b", "l", "e">>,
    Txt503 }

SuppressedPatterns ==
  { <<"n", "e", "t", "w", "o", "r", "k", " ", "e", "r", "r", "o", "r">>,
    <<"n", "e", "t", "w", "o", "r", "k", "e", "r", "r", "o", "r">>,
    <<"c", "l", "o", "s", "e", "d">>,
    TxtAborted,
    <<"e", "n", "t", "i", "t", "y", " ", "w", "a", "s", " ", "n", "o", "t", " ", "f", "o", "u", "n", "d">>,
    <<"c", "o", "n", "n", "e", "c", "t", "i", "o", "n", " ", "f", "a", "i", "l", "e", "d">>,
    <<"u", "n", "d", "e", "f", "i", "n", "e", "d">> }

\* A classifier that matches the text as it is, without toLowerCase (a fault C14
\* must detect).
ErrorClassCaseSensitive(errMsg) ==
  IF \E q \in BusyPatterns : Includes(errMsg, q) THEN "Busy"
  ELSE IF \E q \in SuppressedPatterns : Includes(errMsg, q) THEN "TransientSuppressed"
  ELSE "Fatal"

\* The branch onerror takes for the text errMsg.
ErrorClass(errMsg) ==
  LET lowerErr == ToLowerCase(errMsg) IN
  IF \E q \in BusyPatterns : Includes(lowerErr, q) THEN "Busy"
  ELSE IF \E q \in SuppressedPatterns : Includes(lowerErr, q) THEN "TransientSuppressed"
  ELSE "Fatal"

\* Error texts the transport may report.
TxtSocketClosed == <<"W", "e", "b", "S", "o", "c", "k", "e", "t", " ", "C", "l", "o", "s", "e", "d">>
TransportErrors ==
  { <<"S", "e", "r", "v", "i", "c", "e", " ", "i", "s", " ", "c", "u", "r", "r", "e", "n", "t", "l", "y", " ", "u", "n", "a", "v", "a", "i", "l", "a", "b", "l", "e">>,
    TxtSocketClosed,
    <<"N", "e", "t", "w", "o", "r", "k", "E", "r", "r", "o", "r">>,
    <<"E", "n", "t", "i", "t", "y", " ", "w", "a", "s", " ", "n", "o", "t", " ", "f", "o", "u", "n", "d">>,
    <<"5", "0", "3", " ", "c", "l", "o", "s", "e", "d">>,
    <<"b", "o", "o", "m">> }

\* Branches of which the suppressing one leaves isSpeaking alone (a fault C15
\* must detect).
BranchKeepsSpeaking(class) ==
  [notice |-> CASE class = "Busy" -> "server_busy"
                [] class = "Fatal" -> "connection_error"
                [] OTHER -> "keep",
   setIsConnected |-> TRUE,
   setIsSpeaking |-> class # "TransientSuppressed",
   clearSession |-> TRUE]

\* Branches of which the suppressing one shows the generic notice (a fault C17
\* must detect).
NoisyBranch(class) ==
  [notice |-> CASE class = "Busy" -> "server_busy"
                [] OTHER -> "connection_error",
   setIsConnected |-> TRUE, setIsSpeaking |-> TRUE, clearSession |-> TRUE]

\* What the branch of a class does: the notice it passes to setError ("keep" when
\* it does not call setError), and whether it calls setIsConnected(false),
\* setIsSpeaking(false) and clears activeSessionRef.
ErrorBranch(class) ==
  [notice |-> CASE class = "Busy" -> "server_busy"
                [] class = "Fatal" -> "connection_error"
                [] OTHER -> "keep",
   setIsConnected |-> TRUE, setIsSpeaking |-> TRUE, clearSession |-> TRUE]

\* onerror of the transport session r, errMsg the text extracted from the error.
OnError(r, errMsg) ==
  /\ NoMicrotask
  /\ r \in transports /\ r.st \in {"connecting", "open"}
  /\ transports' = (transports \ {r}) \cup {[r EXCEPT !.st = "closing"]}
  /\ IF IsCurrent(r.tok)
     THEN \E class \in {ErrorClass(errMsg)} : \E b \in {ErrorBranch(class)} :
          /\ error' = IF b.notice = "keep" THEN error ELSE b.notice
          /\ isConnected' = IF b.setIsConnected THEN FALSE ELSE isConnected
          /\ isSpeaking' = IF b.setIsSpeaking THEN FALSE ELSE isSpeaking
          /\ activeSessionRef' = IF b.clearSession THEN Null ELSE activeSessionRef
          /\ evt' = [Evt("onerror", r.tok) EXCEPT !.err = errMsg, !.class = class]
     ELSE /\ evt' = Evt("onerror", r.tok)
          /\ UNCHANGED <<error, isConnected, isSpeaking, activeSessionRef>>
  /\ UNCHANGED <<isBusy, messages, volume, audioContextInput, audioContextOutput,
                 processorRef, sourceRef, streamRef, devices, sched, trans, procs,
                 currentSessionIdRef, now, mounted, overlapped, sinceDisconnect>>

\* ------------------------------------------------------------- transcripts
\* An updater that changes the flag of the pending entry and leaves its text (a
\* fault C12 must detect).
updateFlagOnly(prev, role, text, isComplete, id) ==
  LET n == Len(prev) IN
  IF n > 0 /\ prev[n].role = role /\ ~prev[n].isComplete
  THEN [prev EXCEPT ![n] = [@ EXCEPT !.isComplete = isComplete]]
  ELSE IF TrimNonEmpty(text)
  THEN Append(prev, [id |-> id, role |-> role, text |-> text, isComplete |-> isComplete])
  ELSE prev

\* The updater updateMessageState passes to setMessages; id is Date.now().
updateMessageState(prev, role, text, isComplete, id) ==
  LET n == Len(prev) IN
  IF n > 0 /\ prev[n].role = role /\ ~prev[n].isComplete
  THEN [prev EXCEPT ![n] = [@ EXCEPT !.text = text, !.isComplete = isComplete]]
  ELSE IF TrimNonEmpty(text)
  THEN Append(prev, [id |-> id, role |-> role, text |-> text, isComplete |-> isComplete])
  ELSE prev

\* serverContent of a message; NoText is an absent transcription.  A message
\* carries at most two of its five fields.
ServerMessages ==
  { m \in [inputTx : Fragments \cup {NoText}, outputTx : Fragments \cup {NoText},
           turnComplete : BOOLEAN, audio : Durations \cup {NoAudio, BadAudio},
           interrupted : BOOLEAN] :
      Cardinality({f \in {"inputTx", "outputTx"} : m[f] # NoText})
        + (IF m.turnComplete THEN 1 ELSE 0) + (IF m.audio # NoAudio THEN 1 ELSE 0)
        + (IF m.interrupted THEN 1 ELSE 0) \in 1..2 }

\* A message without content, and the messages that carry one field.
Empty ==
  [inputTx |-> NoText, outputTx |-> NoText, turnComplete |-> FALSE,
   audio |-> NoAudio, interrupted |-> FALSE]

Input(fragments) == {[Empty EXCEPT !.inputTx = f] : f \in fragments}
Output(fragments) == {[Empty EXCEPT !.outputTx = f] : f \in fragments}
Audio(chunks) == {[Empty EXCEPT !.audio = a] : a \in chunks}
TurnComplete == [Empty EXCEPT !.turnComplete = TRUE]
Interrupted == [Empty EXCEPT !.interrupted = TRUE]

\* The messages that carry no transcript: a chunk, an interruption, or both.
AudioMessages ==
  Audio({BadAudio, 1}) \cup {Interrupted}
    \cup {[a EXCEPT !.interrupted = TRUE] : a \in Audio({BadAudio, 1})}

\* handleTranscription: the accumulators and the message list it leaves, the two
\* accumulators as they were after their += (inAcc, outAcc), and whether the stop
\* command was detected.
handleTranscription(m, id) ==
  LET hasIn == m.inputTx # NoText
      hasOut == m.outputTx # NoText
      inAcc == IF hasIn THEN currentInputTrans \o m.inputTx ELSE currentInputTrans
      m1 == IF hasIn THEN updateMessageState(messages, "user", inAcc, FALSE, id)
            ELSE messages
      outAcc == IF hasOut THEN currentOutputTrans \o m.outputTx ELSE currentOutputTrans
      m2 == IF hasOut THEN updateMessageState(m1, "model", outAcc, FALSE, id) ELSE m1
      m3 == IF m.turnComplete /\ inAcc # NoText
            THEN updateMessageState(m2, "user", inAcc, TRUE, id) ELSE m2
      m4 == IF m.turnComplete /\ outAcc # NoText
            THEN updateMessageState(m3, "model", outAcc, TRUE, id) ELSE m3
  IN [messages |-> m4,
      inAcc |-> inAcc,
      outAcc |-> outAcc,
      inputTrans |-> IF m.turnComplete THEN NoText ELSE inAcc,
      outputTrans |-> IF m.turnComplete THEN NoText ELSE outAcc,
      outputTurn |-> IF hasOut
                     THEN [last |-> m.outputTx,
                           chain |-> outputTurn.chain /\ Extends(m.outputTx, outputTurn.last),
                           text |-> outputTurn.text \o m.outputTx]
                     ELSE outputTurn,
      stop |-> hasIn /\ HasStopPhrase(inAcc)]

\* handleTranscription appends an entry, whose id is a read of Date.now().
Appends(m) == Len(handleTranscription(m, now).messages) > Len(messages)

\* An interruption that leaves nextStartTime alone (a fault C8 must detect).
KeptCursor(cursor) == cursor

\* What the interrupted branch of onmessage leaves in nextStartTime.
InterruptedCursor(cursor) == 0

\* onmessage of the transport session r.
OnMessage(r, m) ==
  /\ NoMicrotask
  /\ r \in transports /\ r.st = "open"
  /\ IF ~IsCurrent(r.tok)
     THEN /\ evt' = Evt("onmessage", r.tok)
          /\ UNCHANGED <<ui, handles, devices, sched, trans, procs,
                         currentSessionIdRef, now, mounted, overlapped, transports,
                         sinceDisconnect>>
     ELSE \E t \in (IF Appends(m) THEN DateNow(FALSE) ELSE {now}) :
          \E h \in {handleTranscription(m, t)} :
          LET plays == m.audio # NoAudio /\ audioContextOutput # "null"
              clears == h.stop \/ m.interrupted
              cursor == IF m.interrupted THEN InterruptedCursor(nextStartTime)
                        ELSE nextStartTime
          IN
          /\ Len(h.inAcc) <= MaxAccLen /\ Len(h.outAcc) <= MaxAccLen
          /\ Len(h.messages) <= MaxMsgs
          /\ plays /\ m.audio # BadAudio =>
               /\ Size(audioSources) < MaxSources
               /\ cursor + m.audio <= MaxTime
          /\ now' = t
          /\ messages' = h.messages
          /\ currentInputTrans' = h.inputTrans
          /\ currentOutputTrans' = IF m.interrupted THEN NoText ELSE h.outputTrans
          /\ outputTurn' = IF currentOutputTrans' = NoText THEN NoTurn ELSE h.outputTurn
          /\ audioSources' = IF clears THEN NoNodes ELSE audioSources
          /\ endedPending' = IF clears THEN Stopped(audioSources) ELSE endedPending
          /\ nextStartTime' = cursor
          /\ isSpeaking' = IF m.interrupted THEN FALSE
                           ELSE IF plays THEN TRUE
                           ELSE IF h.stop THEN FALSE
                           ELSE isSpeaking
          /\ decodePending' = IF plays THEN [dur |-> m.audio, tok |-> r.tok]
                              ELSE NoDecode
          /\ evt' = [Evt("onmessage", r.tok) EXCEPT
                       !.intr = m.interrupted,
                       !.turn = m.turnComplete,
                       !.stop = h.stop,
                       !.reset = IF m.interrupted THEN nextStartTime ELSE -1,
                       !.stopped = IF clears THEN Size(audioSources) ELSE 0,
                       !.dropped = IF m.interrupted THEN Len(h.outputTrans) ELSE 0]
          /\ UNCHANGED <<isConnected, isBusy, error, volume, handles, devices,
                         timers, pc, sessionId, sessionPromise,
                         pendingSends, currentSessionIdRef, mounted, overlapped,
                         transports, sinceDisconnect>>

\* ---------------------------------------------------------------- playback
\* A scheduler that starts every chunk at once (a fault C7 must detect).
StartNow(currentTime, cursor) == currentTime

\* Math.max(currentTime, nextStartTime.current)
StartTime(currentTime, cursor) == Max(currentTime, cursor)

\* playAudioChunk resumes after await decodeAudioData (a microtask of the task
\* that ran onmessage).
PlayAudioChunkResume ==
  /\ decodePending # NoDecode
  /\ decodePending' = NoDecode
  /\ IF decodePending.dur = BadAudio
     THEN /\ evt' = Evt("decode_failed", decodePending.tok)
          /\ UNCHANGED <<nextStartTime, audioSources>>
     ELSE \E currentTime \in 0..MaxTime :
          LET start == StartTime(currentTime, nextStartTime) IN
          /\ start + decodePending.dur <= MaxTime
          /\ nextStartTime' = start + decodePending.dur
          /\ audioSources' = [audioSources EXCEPT ![decodePending.tok] = @ + 1]
          /\ evt' = [Evt("enqueue", decodePending.tok) EXCEPT !.at = currentTime,
                                                              !.start = start]
  /\ UNCHANGED <<ui, handles, devices, endedPending, timers, trans, pc, sessionId,
                 sessionPromise, pendingSends, currentSessionIdRef, now, mounted,
                 overlapped, transports, sinceDisconnect>>

\* source.onended of a source created by session t: one that played to its end
\* (it is still in audioSources) or one that was stopped.
SourceEnded(t, played) ==
  /\ NoMicrotask
  /\ IF played THEN audioSources[t] > 0 ELSE endedPending[t] > 0
  /\ audioSources' = IF played THEN [audioSources EXCEPT ![t] = @ - 1] ELSE audioSources
  /\ endedPending' = IF played THEN endedPending ELSE [endedPending EXCEPT ![t] = @ - 1]
  /\ timers' = IF Size(audioSources') = 0
               THEN [timers EXCEPT ![t] = Min(@ + 1, MaxTimers)]
               ELSE timers
  /\ evt' = [Evt("onended", t) EXCEPT !.played = played]
  /\ UNCHANGED <<ui, handles, devices, nextStartTime, trans, procs,
                 currentSessionIdRef, now, mounted, overlapped, transports,
                 sinceDisconnect>>

\* A timer that fires without clearing isSpeaking.
TimerLost(t) ==
  /\ NoMicrotask
  /\ timers[t] > 0
  /\ timers' = [timers EXCEPT ![t] = @ - 1]
  /\ evt' = Evt("timer", t)
  /\ UNCHANGED <<ui, handles, devices, nextStartTime, audioSources, endedPending,
                 trans, procs, currentSessionIdRef, now, mounted, overlapped,
                 transports, sinceDisconnect>>

\* The timer set by source.onended fires.
TimerFired(t) ==
  /\ NoMicrotask
  /\ timers[t] > 0
  /\ timers' = [timers EXCEPT ![t] = @ - 1]
  /\ isSpeaking' = FALSE
  /\ evt' = Evt("timer", t)
  /\ UNCHANGED <<isConnected, isBusy, messages, error, volume, handles, devices,
                 nextStartTime, audioSources, endedPending, trans, procs,
                 currentSessionIdRef, now, mounted, overlapped, transports,
                 sinceDisconnect>>

\* ----------------------------------------------------------------- capture
\* A tick without the feedback guard (a fault C5 must detect).
NoEchoGuard(sources) == FALSE

\* "Prevent feedback": the tick returns while a source is scheduled.
EchoGuard(sources) == Size(sources) > 0

\* Math.min(rms * 10, 1), in hundredths.
Volume(rms) == Min(rms * VolumeGain, Unit)

\* The factor of the quantization, 2^15.
Int16Scale == 32768

\* The integer part of n / d (the conversion of a Number to an integer drops
\* the fraction).
Truncate(n, d) == IF n >= 0 THEN n \div d ELSE -((-n) \div d)

\* The store of an integer into an element of an Int16Array: modulo 2^16, read
\* as a signed 16-bit value.
ToInt16(n) ==
  LET m == n % (2 * Int16Scale)
  IN IF m >= Int16Scale THEN m - 2 * Int16Scale ELSE m

\* int16[i] = inputData[i] * 32768, for a sample s in hundredths.
Quantize(s) == ToInt16(Truncate(s * Int16Scale, Unit))

\* scriptProcessor.onaudioprocess of the capture graph of session t, with a
\* buffer of loudness rms.
CaptureTick(t, rms) ==
  /\ NoMicrotask
  /\ t \in capture \cup residual
  /\ residual' = IF t \in capture THEN residual ELSE residual \ {t}
  /\ IF ~IsCurrent(t) \/ EchoGuard(audioSources)
     THEN /\ evt' = [Evt("tick", t) EXCEPT !.rms = rms]
          /\ UNCHANGED <<volume, pendingSends>>
     ELSE /\ volume' = Volume(rms)
          /\ \E onLine \in BOOLEAN :
               LET sends == onLine /\ sessionPromise = "resolved"
                   queues == onLine /\ sessionPromise \in {"pending", "opened"}
               IN
               /\ pendingSends' = IF queues THEN Min(pendingSends + 1, MaxPending)
                                  ELSE pendingSends
               /\ evt' = [Evt("tick", t) EXCEPT !.vol = TRUE,
                                                !.rms = rms,
                                                !.frame = <<Quantize(rms),
                                                            Quantize(-rms)>>,
                                                !.sent = IF sends THEN 1 ELSE 0,
                                                !.queued = IF queues THEN 1 ELSE 0]
  /\ UNCHANGED <<isConnected, isSpeaking, isBusy, messages, error, handles,
                 openInputs, openOutputs, openStreams, capture, sched, trans, pc,
                 sessionId, sessionPromise, decodePending, currentSessionIdRef, now,
                 mounted, overlapped, transports, sinceDisconnect>>

\* ------------------------------------------------------------ specification
\* The session with its playback and capture, in an environment that stays online,
\* starts no two connect attempts within one millisecond, rejects with an
\* "Aborted" error and reports a "WebSocket Closed" error; the messages carry
\* audio and interruptions.
Next ==
  \/ ConnectStart({TRUE}, TRUE, NoFaults)
  \/ DisconnectStart(NoFaults)
  \/ \E p \in Procs : CleanupResume(p, NoFaults)
  \/ ResumeInDone
  \/ ResumeOutDone
  \/ GetUserMediaDone({TxtAbortedError})
  \/ SessionResolved
  \/ SessionRejected({TxtAbortedError})
  \/ \E r \in transports : OnOpen(r)
  \/ \E r \in transports, m \in AudioMessages : OnMessage(r, m)
  \/ PlayAudioChunkResume
  \/ \E r \in transports : OnClose(r)
  \/ \E r \in transports : OnError(r, TxtSocketClosed)
  \/ \E t \in Tokens, played \in BOOLEAN : SourceEnded(t, played)
  \/ \E t \in Tokens : TimerFired(t)
  \/ \E t \in Tokens : CaptureTick(t, 5)

Spec == Init /\ [][Next]_vars

\* The messages of a turn in which the user says the stop command in two fragments
\* while the service answers: each carries one field, or an interruption together
\* with a chunk.
TranscriptMessages ==
  Input({<<"T", "i", "t", "t">>, <<"H", "a", "t", "u">>})
    \cup Output({<<"n", "a", "m", "o">>})
    \cup Audio({1}) \cup {Interrupted, [Interrupted EXCEPT !.audio = 1]}

\* The transcripts and the chunks they schedule or stop, over sessions that open
\* without an error and end by disconnect, within the time the chunks play.
NextT ==
  \/ ConnectStart({TRUE}, TRUE, NoFaults)
  \/ DisconnectStart(NoFaults)
  \/ \E p \in Procs : CleanupResume(p, NoFaults)
  \/ ResumeInDone
  \/ ResumeOutDone
  \/ GetUserMediaDone({})
  \/ SessionResolved
  \/ \E r \in transports : OnOpen(r)
  \/ \E r \in transports, m \in TranscriptMessages : OnMessage(r, m)
  \/ PlayAudioChunkResume

SpecT == Init /\ [][NextT]_vars

\* The session of Spec in a component that may be unmounted.
NextU ==
  \/ Next
  \/ Unmount

SpecU == Init /\ [][NextU]_vars

\* The messages of a turn in which user and model fragments interleave, the model
\* fragments each extending the one before, and the signal that ends the turn.
TurnMessages ==
  Input({<<"n", "a">>})
    \cup Output({<<"n", "a">>, <<"n", "a", "m", "o">>})
    \cup {TurnComplete}

\* The transcript aggregator over sessions that open without an error and carry
\* no audio.
NextM ==
  \/ ConnectStart({TRUE}, TRUE, NoFaults)
  \/ DisconnectStart(NoFaults)
  \/ \E p \in Procs : CleanupResume(p, NoFaults)
  \/ ResumeInDone
  \/ ResumeOutDone
  \/ GetUserMediaDone({})
  \/ SessionResolved
  \/ \E r \in transports : OnOpen(r)
  \/ \E r \in transports, m \in TurnMessages : OnMessage(r, m)

SpecM == Init /\ [][NextM]_vars

\* The session of Spec over a transport that reports errors of every class; the
\* messages carry chunks.
NextE ==
  \/ ConnectStart({TRUE}, TRUE, NoFaults)
  \/ DisconnectStart(NoFaults)
  \/ \E p \in Procs : CleanupResume(p, NoFaults)
  \/ ResumeInDone
  \/ ResumeOutDone
  \/ GetUserMediaDone({})
  \/ SessionResolved
  \/ \E r \in transports : OnOpen(r)
  \/ \E r \in transports, m \in Audio({1}) : OnMessage(r, m)
  \/ PlayAudioChunkResume
  \/ \E r \in transports : OnClose(r)
  \/ \E r \in transports, errMsg \in TransportErrors : OnError(r, errMsg)
  \/ \E t \in Tokens : CaptureTick(t, 5)

SpecE == Init /\ [][NextE]_vars

\* Sessions that open without an error and play chunks, in an environment where
\* any single step of a teardown may throw.
NextF ==
  \/ ConnectStart({TRUE}, TRUE, SingleFaults)
  \/ DisconnectStart(SingleFaults)
  \/ \E p \in Procs : CleanupResume(p, SingleFaults)
  \/ ResumeInDone
  \/ ResumeOutDone
  \/ GetUserMediaDone({})
  \/ SessionResolved
  \/ \E r \in transports : OnOpen(r)
  \/ \E r \in transports, m \in Audio({1}) : OnMessage(r, m)
  \/ PlayAudioChunkResume
  \/ \E r \in transports : OnClose(r)

SpecF == Init /\ [][NextF]_vars

\* The commands of the user, given at any time, in a component that may be
\* unmounted; the sessions open without an error and carry no messages.
NextB ==
  \/ ConnectStart({TRUE}, TRUE, NoFaults)
  \/ ConnectBusy
  \/ DisconnectStart(NoFaults)
  \/ DisconnectBusy
  \/ Unmount
  \/ \E p \in Procs : CleanupResume(p, NoFaults)
  \/ ResumeInDone
  \/ ResumeOutDone
  \/ GetUserMediaDone({})
  \/ SessionResolved
  \/ \E r \in transports : OnOpen(r)
  \/ \E r \in transports : OnClose(r)

SpecB == Init /\ [][NextB]_vars

\* Connecting with a microphone that may refuse: getUserMedia rejects with any
\* of ConnectErrors, or resolves, and the component may unmount at any time.
NextG ==
  \/ ConnectStart({TRUE}, TRUE, NoFaults)
  \/ DisconnectStart(NoFaults)
  \/ Unmount
  \/ \E p \in Procs : CleanupResume(p, NoFaults)
  \/ ResumeInDone
  \/ ResumeOutDone
  \/ GetUserMediaDone(ConnectErrors)
  \/ SessionResolved
  \/ \E r \in transports : OnOpen(r)
  \/ \E r \in transports : OnClose(r)

SpecG == Init /\ [][NextG]_vars

\* The volume meter: sessions that open without an error, play the model's
\* audio, and capture buffers of every loudness of RmsLevels.
NextV ==
  \/ ConnectStart({TRUE}, TRUE, NoFaults)
  \/ DisconnectStart(NoFaults)
  \/ \E p \in Procs : CleanupResume(p, NoFaults)
  \/ ResumeInDone
  \/ ResumeOutDone
  \/ GetUserMediaDone({})
  \/ SessionResolved
  \/ \E r \in transports : OnOpen(r)
  \/ \E r \in transports, m \in Audio({1}) : OnMessage(r, m)
  \/ PlayAudioChunkResume
  \/ \E t \in Tokens, played \in BOOLEAN : SourceEnded(t, played)
  \/ \E t \in Tokens : TimerFired(t)
  \/ \E t \in Tokens, rms \in RmsLevels : CaptureTick(t, rms)

SpecV == Init /\ [][NextV]_vars

\* connect and disconnect run to their end: every promise they await settles
\* (weak fairness of each continuation), getUserMedia and the opening of the
\* transport may fail, a step of the teardown may throw, and the component may
\* unmount.
NextL ==
  \/ ConnectStart({TRUE}, TRUE, SingleFaults)
  \/ DisconnectStart(SingleFaults)
  \/ Unmount
  \/ \E p \in Procs : CleanupResume(p, SingleFaults)
  \/ ResumeInDone
  \/ ResumeOutDone
  \/ GetUserMediaDone(ConnectErrors)
  \/ SessionResolved
  \/ SessionRejected({TxtAbortedError})
  \/ \E r \in transports : OnOpen(r)
  \/ \E r \in transports : OnClose(r)

EveryPromiseSettles ==
  /\ \A p \in Procs : WF_vars(CleanupResume(p, SingleFaults))
  /\ WF_vars(ResumeInDone)
  /\ WF_vars(ResumeOutDone)
  /\ WF_vars(GetUserMediaDone(ConnectErrors))
  /\ WF_vars(SessionResolved)
  /\ WF_vars(SessionRejected({TxtAbortedError}))

SpecL == Init /\ [][NextL]_vars /\ EveryPromiseSettles

\* Sessions under the clock as Date.now() reads it: two reads may return the
\* same millisecond.
NextD ==
  \/ ConnectStart({TRUE}, FALSE, NoFaults)
  \/ DisconnectStart(NoFaults)
  \/ \E p \in Procs : CleanupResume(p, NoFaults)
  \/ ResumeInDone
  \/ ResumeOutDone
  \/ GetUserMediaDone(ConnectErrors)
  \/ SessionResolved
  \/ \E r \in transports : OnOpen(r)
  \/ \E r \in transports : OnClose(r)

SpecD == Init /\ [][NextD]_vars

\* Messages that carry the transcription of both parties at once, with the
\* user's fragment alone and the end of the turn.
PairMessages ==
  {[Empty EXCEPT !.inputTx = <<"n", "a">>, !.outputTx = <<"m", "o">>], TurnComplete}
    \cup Input({<<"n", "a">>})

\* The message list under messages that append two entries in one event, over
\* sessions that open without an error.
NextI ==
  \/ ConnectStart({TRUE}, TRUE, NoFaults)
  \/ DisconnectStart(NoFaults)
  \/ \E p \in Procs : CleanupResume(p, NoFaults)
  \/ ResumeInDone
  \/ ResumeOutDone
  \/ GetUserMediaDone({})
  \/ SessionResolved
  \/ \E r \in transports : OnOpen(r)
  \/ \E r \in transports, m \in PairMessages : OnMessage(r, m)
  \/ \E r \in transports : OnClose(r)

SpecI == Init /\ [][NextI]_vars

\* The playback of SpecV where every timer that was set fires.
EveryTimerFires == \A t \in Tokens : WF_vars(TimerFired(t))

SpecP == Init /\ [][NextV]_vars /\ EveryTimerFires

\* ------------------------------------------------------------------ claims
\* In the formulas below evt' is the task a step runs: evt'.op its kind and
\* evt'.tok the session id its closure captured.

\* C1. Once currentSessionIdRef has changed away from T, no callback or
\* continuation created under T (onopen, onmessage, onclose, onerror, capture
\* tick, deferred send, playback-ended hook, grace timer) changes isConnected,
\* isSpeaking, volume, messages or error.
C1_StaleTaskChangesNothing ==
  [][(evt'.tok # Null /\ evt'.tok # currentSessionIdRef)
       => observables' = observables]_vars

\* C2. Whenever a frame is handed to sendRealtimeInput, isConnected is true and
\* currentSessionIdRef is the session id under which the frame was captured.
C2_FramesSentOnlyWhileOpen ==
  [][evt'.sent > 0 =>
       (/\ isConnected
        /\ currentSessionIdRef = (IF evt'.op = "tick" THEN evt'.tok ELSE sessionId))]_vars

\* C3. From the completion of a disconnect() until the next connect() starts,
\* isConnected = false, isSpeaking = false and volume = 0.
C3_ResetHoldsAfterDisconnect ==
  sinceDisconnect => ~isConnected /\ ~isSpeaking /\ volume = 0

\* C3 witness: after a disconnect has completed, the grace timer of a source it
\* stopped has fired.
C3_TimerAfterDisconnect == sinceDisconnect /\ evt.op = "timer"

\* C4. isConnected becomes true only in an onopen whose session id equals
\* currentSessionIdRef.
C4_ConnectedOnlyByCurrentOnOpen ==
  [][(~isConnected /\ isConnected')
       => (evt'.op = "onopen" /\ evt'.tok = currentSessionIdRef)]_vars

\* C4 witness: an onopen has set isConnected.
C4_Opened == isConnected /\ evt.op = "onopen"

\* C5. A capture tick that runs while audioSources is non-empty hands no frame to
\* the transport, at once or deferred.
C5_NoFrameWhilePlaying ==
  [][(evt'.op = "tick" /\ Size(audioSources) > 0)
       => (evt'.sent = 0 /\ evt'.queued = 0)]_vars

\* C5 witness: a tick of the current, resolved session has run while a source was
\* scheduled.
C5_TickWhilePlaying ==
  /\ evt.op = "tick" /\ evt.tok = currentSessionIdRef
  /\ sessionPromise = "resolved" /\ isConnected
  /\ Size(audioSources) > 0

\* C6. Every capture tick under the current session id calls setVolume, also one
\* the echo guard suppresses.
C6_EveryCurrentTickUpdatesVolume ==
  [][(evt'.op = "tick" /\ evt'.tok = currentSessionIdRef) => evt'.vol]_vars

\* C7. nextStartTime never decreases in a step, except in a step that runs the
\* interrupted branch of onmessage, which leaves it 0.
C7_CursorDecreasesOnlyByInterrupt ==
  [][nextStartTime' < nextStartTime => (evt'.intr /\ nextStartTime' = 0)]_vars

\* C7 witness: an interruption has reset a positive nextStartTime.
C7_CursorReset == evt.intr /\ evt.reset > 0 /\ nextStartTime = 0

\* C8. An onmessage with interrupted = true under the current session id stops
\* every source of audioSources and empties the set, sets nextStartTime to 0,
\* clears currentOutputTrans and sets isSpeaking to false, all in that step; a
\* chunk enqueued while nextStartTime is 0 starts at max(currentTime, 0).
C8_InterruptionResets ==
  [][/\ (evt'.op = "onmessage" /\ evt'.intr) =>
          (/\ \A t \in Tokens : (audioSources[t] > 0 => endedPending'[t] > 0)
           /\ audioSources' = NoNodes
           /\ nextStartTime' = 0
           /\ currentOutputTrans' = NoText
           /\ isSpeaking' = FALSE)
     /\ (evt'.op = "enqueue" /\ nextStartTime = 0) =>
          (evt'.start = Max(evt'.at, 0))]_vars

\* C8 witness: an interruption has stopped two sources and discarded a non-empty
\* model transcript.
C8_InterruptedTwoSources ==
  /\ evt.op = "onmessage" /\ evt.intr
  /\ evt.stopped = 2 /\ evt.dropped > 0 /\ evt.reset > 0

\* C9. When a user fragment leaves a stop phrase in currentInputTrans, the same
\* step performs the interruption: audioSources emptied, nextStartTime 0,
\* currentOutputTrans cleared, isSpeaking false.
C9_StopPhraseInterrupts ==
  [][(/\ evt'.op = "onmessage"
      /\ currentInputTrans' # currentInputTrans
      /\ HasStopPhrase(currentInputTrans')) =>
        (/\ audioSources' = NoNodes
         /\ nextStartTime' = 0
         /\ currentOutputTrans' = NoText
         /\ isSpeaking' = FALSE)]_vars

\* C10. In every reachable state a non-empty audioSources implies isSpeaking.
C10_ActiveSourcesImplySpeaking == Size(audioSources) > 0 => isSpeaking

\* C11. In every reachable state the message list holds, for each role, at most
\* one entry with isComplete = false.
C11_OneIncompletePerRole ==
  \A role \in {"user", "model"} :
    Cardinality({i \in 1..Len(messages) :
                   messages[i].role = role /\ ~messages[i].isComplete}) <= 1

C13_TurnCompleteFinalizesPending ==
  [][(evt'.op = "onmessage" /\ evt'.turn) =>
       (/\ currentInputTrans' = NoText /\ currentOutputTrans' = NoText
        /\ \A role \in {"user", "model"} :
             LET acc == IF role = "user" THEN currentInputTrans ELSE currentOutputTrans
                 OfRole(list) == {i \in 1..Len(list) : list[i].role = role}
                 Pending(list) == {i \in OfRole(list) : ~list[i].isComplete}
             IN acc # NoText =>
                  (/\ Pending(messages') = {}
                   /\ Pending(messages) # {} =>
                        Cardinality(OfRole(messages')) = Cardinality(OfRole(messages))))]_vars

C16_BusyOrFatalClearsVolume ==
  [][(/\ evt'.op = "onerror" /\ evt'.tok = currentSessionIdRef
      /\ evt'.class \in {"Busy", "Fatal"}) => volume' = 0]_vars

\* C17. An onerror of class TransientSuppressed under the current session id
\* leaves the notice as it was; one of class Busy or Fatal sets a notice.
C17_OnlyBusyAndFatalNotify ==
  [][(evt'.op = "onerror" /\ evt'.tok = currentSessionIdRef) =>
       IF evt'.class = "TransientSuppressed"
       THEN error' = error
       ELSE error' \in {"server_busy", "connection_error"}]_vars

\* C17 witness: a suppressed onerror has left the notice empty.
C17_SuppressedSilently ==
  /\ evt.op = "onerror" /\ evt.tok = currentSessionIdRef
  /\ evt.class = "TransientSuppressed" /\ error = "null" /\ ~isConnected

\* C18. disconnect sets currentSessionIdRef to 0 before any step of the teardown,
\* and the teardown performs its steps in the order (1) disconnect the capture
\* graph, (2) stop the microphone stream, (3) close the session, (4) close the
\* audio contexts, (5) stop and clear the source nodes; the steps after an awaited
\* step run only when the await has settled.
C18_TeardownInOrder ==
  [][evt'.proc = "disconnect" =>
       LET Rank(step) == CASE step = "invalidate" -> 0
                           [] step \in {"processor", "source"} -> 1
                           [] step = "stream" -> 2
                           [] step = "session" -> 3
                           [] step \in {"input", "output"} -> 4
                           [] OTHER -> 5
           steps == evt'.steps
           After == CASE pc["disconnect"] = "cl_sess" -> {"input", "output", "sources"}
                      [] pc["disconnect"] = "cl_in" -> {"output", "sources"}
                      [] pc["disconnect"] = "cl_out" -> {"sources"}
                      [] OTHER -> {"invalidate", "processor", "source", "stream",
                                   "session", "input", "output", "sources"}
       IN /\ evt'.op = "disconnect" =>
               (steps[1] = "invalidate" /\ currentSessionIdRef' = Null)
          /\ \A i \in 1..Len(steps) :
               /\ steps[i] \in After
               /\ steps[i] = "invalidate" => i = 1
               /\ \A j \in 1..Len(steps) : i < j => Rank(steps[i]) <= Rank(steps[j])
          /\ evt'.teardown = "returned" => steps[Len(steps)] = "sources"]_vars

\* C18 witness: a disconnect has invalidated the id, detached the capture graph,
\* stopped the stream and called close() on the session while sources played.
C18_DisconnectFirstTask ==
  /\ evt.op = "disconnect"
  /\ evt.steps = <<"invalidate", "processor", "source", "stream", "session">>
  /\ Size(audioSources) > 0

\* C19. When the teardown of a disconnect ends, also one in which a step threw,
\* it has returned, every handle (script processor, stream source, stream,
\* session, both contexts) is null and audioSources is empty.
C19_TeardownTotal ==
  (evt.proc = "disconnect" /\ evt.teardown \in {"returned", "threw"}) =>
    (/\ evt.teardown = "returned"
     /\ processorRef = Null /\ sourceRef = Null /\ streamRef = "null"
     /\ activeSessionRef = Null
     /\ audioContextInput = "null" /\ audioContextOutput = "null"
     /\ Size(audioSources) = 0)

\* C20. A connect() or disconnect() called while a connect or a disconnect is in
\* flight (the disconnect() of the unmount cleanup included) changes neither
\* currentSessionIdRef nor a device or session handle nor an observable.
C20_CallInFlightChangesNothing ==
  [][(/\ evt'.op \in {"connect", "disconnect", "unmount"}
      /\ \E p \in Procs : pc[p] # "idle") =>
        UNCHANGED <<currentSessionIdRef, handles, observables>>]_vars

\* C21. When getUserMedia fails, or the token was superseded while it was
\* pending, connect returns with every device resource of the attempt released
\* and the shared session state as it was before the attempt: for an attempt
\* whose token is current (its own teardown has emptied the handles) no handle
\* is held, no context or stream is open, the component is not connected and
\* the messages are untouched; for a superseded attempt the handles, the open
\* devices, the connected flag and the messages are left alone.
C21_FailedAcquisitionReleasesAll ==
  [][(pc["connect"] = "gum" /\ pc'["connect"] = "idle") =>
       IF IsCurrent(sessionId)
       THEN /\ audioContextInput' = "null" /\ audioContextOutput' = "null"
            /\ streamRef' = "null" /\ activeSessionRef' = Null
            /\ openInputs' = 0 /\ openOutputs' = 0 /\ openStreams' = 0
            /\ ~isConnected' /\ messages' = messages
       ELSE UNCHANGED <<handles, openInputs, openOutputs, openStreams,
                        isConnected, messages>>]_vars

\* C22 as stated. A getUserMedia failure always sets a notice when the attempt's
\* token is current, and changes nothing when the token was superseded.
C22_CurrentFailureAlwaysNotifies ==
  [][(pc["connect"] = "gum" /\ pc'["connect"] = "idle" /\ evt'.err # << >>) =>
       IF IsCurrent(sessionId)
       THEN error' \in {"connect_busy", "connect_failed"}
       ELSE UNCHANGED <<ui, handles, devices, sched, trans>>]_vars

\* C22 amended. A getUserMedia failure sets a notice when the attempt's token is
\* current and the failure's message does not contain "aborted" in any letter
\* case, and changes nothing when the token was superseded.
C22_CurrentFailureNotifiesUnlessAborted ==
  [][(pc["connect"] = "gum" /\ pc'["connect"] = "idle" /\ evt'.err # << >>) =>
       IF IsCurrent(sessionId)
       THEN ~Includes(ToLowerCase(evt'.err), TxtAborted) =>
              error' \in {"connect_busy", "connect_failed"}
       ELSE UNCHANGED <<ui, handles, devices, sched, trans>>]_vars

\* C22 witness: a refused microphone has put up the failure notice.
C22_PermissionDeniedNotified ==
  /\ evt.proc = "connect" /\ evt.err = TxtPermission
  /\ sessionId = currentSessionIdRef /\ error = "connect_failed"

C24_VolumeIsClampedTickLevel ==
  [][/\ volume' \in 0..Unit
     /\ (evt'.op = "tick" /\ evt'.tok = currentSessionIdRef) =>
          /\ volume' = (IF evt'.rms * VolumeGain < Unit
                        THEN evt'.rms * VolumeGain ELSE Unit)
          /\ evt'.rms = 0 => volume' = 0
          /\ evt'.rms = Unit => volume' = Unit
     /\ (evt'.proc = "disconnect" /\ evt'.teardown = "returned") =>
          volume' = 0]_vars

\* C25. A continuation of connect that resumes after an await while its token
\* is no longer the current one creates and stores nothing and changes nothing
\* the UI shows: no context or stream is opened, no handle is set to a new
\* context, stream or session, no transport is opened, and the observables keep
\* their values.
C25_StaleContinuationCreatesNothing ==
  [][(evt'.proc = "connect" /\ evt'.op # "connect" /\ ~IsCurrent(sessionId)) =>
       /\ openInputs' <= openInputs
       /\ openOutputs' <= openOutputs
       /\ openStreams' <= openStreams
       /\ audioContextInput' = "open" => audioContextInput = "open"
       /\ audioContextOutput' = "open" => audioContextOutput = "open"
       /\ streamRef' = "live" => streamRef = "live"
       /\ activeSessionRef' \in {Null, activeSessionRef}
       /\ \A r \in transports' : \E q \in transports : q.tok = r.tok
       /\ UNCHANGED observables]_vars

\* C26. When no connect, disconnect or unmount is in flight and the component is
\* not connected, no stream, capture node, audio context or session handle is
\* held, and no capture graph delivers ticks any more.
C26_IdleAndClosedHoldsNothing ==
  ((\A p \in Procs : pc[p] = "idle") /\ ~isConnected) =>
     /\ streamRef = "null" /\ processorRef = Null /\ sourceRef = Null
     /\ audioContextInput = "null" /\ audioContextOutput = "null"
     /\ activeSessionRef = Null
     /\ capture = {}

\* C27. When the unmount cleanup's disconnect has overlapped a connect in
\* flight, then once connect and the cleanup have returned and every transport
\* callback has been delivered, nothing of the superseded connect is left: no
\* stream, context or session is referenced and none is open.
C27_OverlappedConnectLeavesNothing ==
  (/\ overlapped
   /\ \A p \in Procs : pc[p] = "idle"
   /\ transports = {} /\ decodePending = NoDecode) =>
     /\ streamRef = "null" /\ activeSessionRef = Null
     /\ audioContextInput = "null" /\ audioContextOutput = "null"
     /\ openStreams = 0 /\ openInputs = 0 /\ openOutputs = 0

\* C28. When a full teardown has returned (disconnect's, or the cleanup at the
\* start of connect), nextStartTime is zero, so the first chunk of the next
\* session starts at max(currentTime, 0).
C28_TeardownResetsCursor ==
  [][(evt'.proc \in {"connect", "disconnect"} /\ evt'.teardown = "returned") =>
       nextStartTime' = 0]_vars

\* C29. When onopen of the current session has run, both transcript
\* accumulators are empty, so no text of a session that ended before its
\* turnComplete gets into a message of the new session.
C29_AccumulatorsEmptyAtOpen ==
  [][(evt'.op = "onopen" /\ evt'.tok = currentSessionIdRef) =>
       (currentInputTrans' = NoText /\ currentOutputTrans' = NoText)]_vars

\* C30. When a message with interrupted = true has been processed to the end,
\* the continuation of playAudioChunk for a chunk of the same message included,
\* no source is active, nextStartTime is zero and isSpeaking is false.
C30_InterruptedLeavesSilence ==
  [][(\/ evt'.op = "onmessage" /\ evt'.intr /\ decodePending' = NoDecode
      \/ /\ evt.op = "onmessage" /\ evt.intr
         /\ decodePending # NoDecode /\ decodePending' = NoDecode) =>
       /\ \A t \in Tokens : audioSources'[t] = 0
       /\ nextStartTime' = 0
       /\ ~isSpeaking']_vars

\* C31. A frame encoded under a token is not transmitted when its deferred send
\* runs after the current token has changed away from it: every send, whether
\* it runs in the tick's own task or when the session promise resolves, is made
\* under the token that is current at that moment.
C31_SendChecksTokenAtSendTime ==
  [][/\ evt'.sent > 0 =>
          (IF evt'.op = "tick" THEN evt'.tok ELSE sessionId) = currentSessionIdRef'
     /\ (evt'.op = "connect_resolved" /\ sessionId # currentSessionIdRef') =>
          (evt'.sent = 0 /\ evt'.unsent = pendingSends)]_vars

\* C31 witness: the session promise resolved after the unmount had superseded
\* the token, and the frame waiting on it was not sent.
C31_QueuedFrameDropped ==
  evt.op = "connect_resolved" /\ evt.unsent > 0 /\ evt.sent = 0

\* C32. Chunks enqueued one after another with no interruption between them
\* are scheduled in arrival order without overlap: nextStartTime is written
\* only by an enqueue, which sets it to the end of the source it starts, and by
\* the interrupted branch; and each source starts at max(currentTime,
\* nextStartTime), that is no earlier than the end of the source before it, and
\* ends strictly later than it starts.
C32_SourcesScheduledBackToBack ==
  [][/\ nextStartTime' # nextStartTime => (evt'.op = "enqueue" \/ evt'.intr)
     /\ evt'.op = "enqueue" =>
          /\ evt'.start = (IF evt'.at > nextStartTime THEN evt'.at
                           ELSE nextStartTime)
          /\ evt'.start >= nextStartTime
          /\ nextStartTime' > evt'.start]_vars

\* C32 witness: a second source was queued behind one that is still to end, later
\* than the device time at which it was enqueued.
C32_SecondSourceQueuedBehind ==
  /\ evt.op = "enqueue" /\ evt.start > evt.at
  /\ Size(audioSources) = 2 /\ nextStartTime > evt.start

\* C33. Within a session a message is only ever extended: a transcript update
\* removes no message, leaves every completed message as it was, and leaves the
\* earlier text of every other message as a prefix of its new text, also when
\* model fragments follow an interruption.
C33_MessagesOnlyExtended ==
  [][(evt'.op = "onmessage" /\ evt'.tok = currentSessionIdRef) =>
       /\ Len(messages') >= Len(messages)
       /\ \A i \in 1..Len(messages) :
            /\ messages'[i].role = messages[i].role
            /\ messages[i].isComplete => messages'[i] = messages[i]
            /\ Len(messages[i].text) <= Len(messages'[i].text)
            /\ SubSeq(messages'[i].text, 1, Len(messages[i].text))
                 = messages[i].text]_vars

\* C34. isBusy is true in every state in which a connect() or a disconnect()
\* (the unmount cleanup's included) has started and not yet returned: no
\* operation clears it while another is in flight.
C34_BusyWhileInFlight == (\E p \in Procs : pc[p] # "idle") => isBusy

\* C35. Every connect() or disconnect() that has passed the busy guard, and so
\* set isBusy, is eventually followed by a state in which isBusy is false, given
\* that every promise it awaits settles.
C35_BusyEventuallyCleared == isBusy ~> ~isBusy

\* C36. When the last active source has played to its end and the set is empty,
\* isSpeaking becomes false unless a further chunk arrives first; and once
\* false it becomes true only by the arrival of a chunk.
C36_SpeakingClearedAfterLastSource ==
  /\ (evt.op = "onended" /\ evt.played /\ Size(audioSources) = 0)
        ~> (~isSpeaking \/ decodePending # NoDecode)
  /\ [][(~isSpeaking /\ isSpeaking') =>
          (evt'.op = "onmessage" /\ decodePending' # NoDecode)]_vars

\* C36 witness: the timer set at the end of the last source has fired and
\* nothing is playing or speaking.
C36_GraceTimerCleared ==
  /\ evt.op = "timer" /\ ~isSpeaking /\ isConnected
  /\ Size(audioSources) = 0 /\ Size(endedPending) = 0 /\ Size(timers) = 0

\* C37. Every connect attempt that passes the busy guard mints a token greater
\* than every token minted before it (the clock of the model never runs
\* backwards, so greater than the last value read) and different from the 0
\* disconnect installs: no two attempts share a token.
C37_TokenStrictlyIncreases ==
  [][(evt'.op = "connect" /\ evt'.proc = "connect") =>
       (sessionId' > now /\ sessionId' # Null
          /\ currentSessionIdRef' = sessionId')]_vars

\* C38. The entries of the message list have pairwise distinct ids, two
\* entries appended during one event included.
C38_MessageIdsDistinct ==
  \A i, j \in 1..Len(messages) : i # j => messages[i].id # messages[j].id

\* C39. For every captured sample s in [-1, 1] the 16-bit value is s x 32768
\* brought into the range -32768..32767 without wrapping around: a sample and
\* its value have the same sign, and a sample of exactly 1.0 does not become
\* negative.  (The tick's buffer holds the samples +rms and -rms.)
C39_QuantizationSaturates ==
  [][(evt'.op = "tick" /\ evt'.vol) =>
       LET up == Truncate(evt'.rms * Int16Scale, Unit)
           down == Truncate((-evt'.rms) * Int16Scale, Unit)
       IN /\ evt'.frame[1] = (IF up > Int16Scale - 1 THEN Int16Scale - 1 ELSE up)
          /\ evt'.frame[2] = (IF down < -Int16Scale THEN -Int16Scale ELSE down)
          /\ evt'.frame[1] >= 0 /\ evt'.frame[2] <= 0]_vars

====
